---- MODULE Spec2Model ----
(***************************************************************************)
(* A model of todo_app.py: the SQLite table `tasks`, the five store        *)
(* functions, and main(), the Streamlit script that is run once per user   *)
(* interaction.  One action of the model is one interaction together with  *)
(* the handler it triggers.  Text is a sequence of one-character strings,  *)
(* a calendar date is a triple <<year, month, day>>, and the due_date      *)
(* column holds the bytes of the ISO text that sqlite3 stores for a date.  *)
(***************************************************************************)
EXTENDS Integers, Sequences, FiniteSets, TLC

VARIABLES
    tasks,            \* the table tasks (lines 24-34): rowid -> row
    all_tasks,        \* the rows the last run of the script read (line 148)
    seq,              \* sqlite_sequence of the AUTOINCREMENT key (line 26)
    task_to_edit,     \* st.session_state.task_to_edit (lines 113-115)
    search_query,     \* sidebar widget "Search Tasks" (line 144)
    filter_priority,  \* sidebar widget "Filter by Priority" (line 145)
    filter_status     \* sidebar widget "Filter by Status" (line 146)

vars == <<tasks, all_tasks, seq, task_to_edit, search_query, filter_priority, filter_status>>

\* ------------------------------------------------------------------ bounds

\* The number of INSERTs a behaviour performs (the key counter is unbounded).
MaxId == 2

\* --------------------------------------------------------------- input sets

\* session_state.task_to_edit = None: no row id is 0 (rowids start at 1).
None == 0

Ids == 1..MaxId

Priorities == {"High", "Medium", "Low"}

PriorityFilters == {"All"} \cup Priorities

StatusFilters == {"All", "Pending", "Completed"}

Statuses == {"Pending", "Completed"}

Form(title, description, priority, due_date) ==
    [title |-> title, description |-> description, priority |-> priority, due_date |-> due_date]

\* What is submitted in the "New Task Form": the last one has no title.
NewTaskForms ==
    { Form(<<"A", "b">>, <<>>, "High", <<2026, 11, 1>>),
      Form(<<"c">>, <<"a">>, "Low", <<2026, 2, 10>>),
      Form(<<>>, <<"a">>, "High", <<2026, 2, 10>>) }

\* What is submitted in an edit form: the last one has its title cleared.
EditForms ==
    { Form(<<"c">>, <<>>, "Medium", <<2027, 1, 5>>),
      Form(<<>>, <<>>, "Low", <<2026, 11, 1>>) }

\* The days on which a form is filled in.
Todays == {<<2026, 2, 10>>, <<2026, 11, 1>>}

Searches == {<<>>, <<"A">>}

\* --------------------------------------------------------------------- text

UpperToLower == ("A" :> "a") @@ ("B" :> "b") @@ ("C" :> "c")

\* str.lower()
lower(s) == [i \in DOMAIN s |-> IF s[i] \in DOMAIN UpperToLower THEN UpperToLower[s[i]] ELSE s[i]]

\* the `in` operator on two strings
str_in(needle, hay) ==
    \E i \in 0..(Len(hay) - Len(needle)) : SubSeq(hay, i + 1, i + Len(needle)) = needle

\* -------------------------------------------------------------------- dates

\* A stored date is the sequence of the bytes of its text: "0" is 48, "-" is 45.
Byte0 == 48

ByteHyphen == 45

\* The byte of the decimal digit of n's last place.
Digit(n) == Byte0 + (n % 10)

\* The text sqlite3 binds for a datetime.date: YYYY-MM-DD, zero padded.
isoformat(d) ==
    << Digit(d[1] \div 1000), Digit(d[1] \div 100), Digit(d[1] \div 10), Digit(d[1]), ByteHyphen,
       Digit(d[2] \div 10), Digit(d[2]), ByteHyphen,
       Digit(d[3] \div 10), Digit(d[3]) >>

\* datetime.strptime(due_date_str, '%Y-%m-%d').date()
strptime(s) ==
    << 1000 * (s[1] - Byte0) + 100 * (s[2] - Byte0) + 10 * (s[3] - Byte0) + (s[4] - Byte0),
       10 * (s[6] - Byte0) + (s[7] - Byte0),
       10 * (s[9] - Byte0) + (s[10] - Byte0) >>

\* date <= date
DateLeq(a, b) ==
    \/ a[1] < b[1]
    \/ a[1] = b[1] /\ a[2] < b[2]
    \/ a[1] = b[1] /\ a[2] = b[2] /\ a[3] <= b[3]

RECURSIVE memcmp_leq(_, _, _)
\* Whether s <= t bytewise from position i on, the shorter text first.
memcmp_leq(s, t, i) ==
    IF i > Len(s) THEN TRUE
    ELSE IF i > Len(t) THEN FALSE
    ELSE IF s[i] = t[i] THEN memcmp_leq(s, t, i + 1)
    ELSE s[i] < t[i]

\* SQLite's BINARY collation on two TEXT values.
TextLeq(s, t) == s = t \/ memcmp_leq(s, t, 1)

\* -------------------------------------------------------------------- store

\* created_at TIMESTAMP DEFAULT CURRENT_TIMESTAMP: a logical clock that the
\* number of rows inserted so far stands for.
CURRENT_TIMESTAMP == seq

\* id INTEGER PRIMARY KEY AUTOINCREMENT: one more than the largest key ever used.
lastrowid == seq + 1

\* A slip in the VALUES tuple: title and description change places.
add_task_swapped(title, description, priority, due_date) ==
    (lastrowid :> [ id          |-> lastrowid,
                    title       |-> description,
                    description |-> title,
                    priority    |-> priority,
                    due_date    |-> isoformat(due_date),
                    status      |-> "Pending",
                    created_at  |-> CURRENT_TIMESTAMP ]) @@ tasks

add_task(title, description, priority, due_date) ==
    (lastrowid :> [ id          |-> lastrowid,
                    title       |-> title,
                    description |-> description,
                    priority    |-> priority,
                    due_date    |-> isoformat(due_date),
                    status      |-> "Pending",
                    created_at  |-> CURRENT_TIMESTAMP ]) @@ tasks

\* ORDER BY due_date DESC instead of ASC.
order_by_due_date_desc(T, left) ==
    {m \in left : \A o \in left \ {m} : TextLeq(T[o].due_date, T[m].due_date)}

\* ORDER BY due_date ASC: the rowids of `left` whose due_date no other is below.
order_by_due_date(T, left) ==
    {m \in left : \A o \in left \ {m} : TextLeq(T[m].due_date, T[o].due_date)}

RECURSIVE fetchall(_, _)
\* Every order in which the rows `left` of table T may be fetched: rows of
\* equal due_date come in an order SQL leaves open.
fetchall(T, left) ==
    IF left = {} THEN {<<>>}
    ELSE UNION { {<<T[m]>> \o rows : rows \in fetchall(T, left \ {m})} :
                 m \in order_by_due_date(T, left) }

\* SELECT * FROM tasks ORDER BY due_date ASC on table T: every result it may give.
view_all_tasks(T) == fetchall(T, DOMAIN T)

\* The UPDATE without its WHERE clause.
update_task_status_everywhere(task_id, status) ==
    [i \in DOMAIN tasks |-> [tasks[i] EXCEPT !.status = status]]

update_task_status(task_id, status) ==
    [i \in DOMAIN tasks |-> IF i = task_id THEN [tasks[i] EXCEPT !.status = status] ELSE tasks[i]]

\* The UPDATE also sets status back to Pending.
update_task_details_and_status(task_id, title, description, priority, due_date) ==
    [i \in DOMAIN tasks |->
        IF i = task_id
        THEN [tasks[i] EXCEPT !.title = title, !.description = description,
                              !.priority = priority, !.due_date = isoformat(due_date),
                              !.status = "Pending"]
        ELSE tasks[i]]

update_task_details(task_id, title, description, priority, due_date) ==
    [i \in DOMAIN tasks |->
        IF i = task_id
        THEN [tasks[i] EXCEPT !.title = title, !.description = description,
                              !.priority = priority, !.due_date = isoformat(due_date)]
        ELSE tasks[i]]

\* The DELETE without its WHERE clause.
delete_task_everywhere(task_id) == [i \in {} |-> tasks[i]]

delete_task(task_id) == [i \in DOMAIN tasks \ {task_id} |-> tasks[i]]

\* ----------------------------------------------------------------- the view

\* The search compares the title as typed, not lowered.
tasks_to_display_title_as_typed ==
    LET by_search ==
            IF search_query # <<>>
            THEN SelectSeq(all_tasks, LAMBDA t :
                    \/ str_in(lower(search_query), t.title)
                    \/ str_in(lower(search_query), lower(t.description)))
            ELSE all_tasks
        by_priority ==
            IF filter_priority # "All"
            THEN SelectSeq(by_search, LAMBDA t : t.priority = filter_priority)
            ELSE by_search
    IN  IF filter_status # "All"
        THEN SelectSeq(by_priority, LAMBDA t : t.status = filter_status)
        ELSE by_priority

\* The three filters, applied one after the other.
tasks_to_display ==
    LET by_search ==
            IF search_query # <<>>
            THEN SelectSeq(all_tasks, LAMBDA t :
                    \/ str_in(lower(search_query), lower(t.title))
                    \/ str_in(lower(search_query), lower(t.description)))
            ELSE all_tasks
        by_priority ==
            IF filter_priority # "All"
            THEN SelectSeq(by_search, LAMBDA t : t.priority = filter_priority)
            ELSE by_search
    IN  IF filter_status # "All"
        THEN SelectSeq(by_priority, LAMBDA t : t.status = filter_status)
        ELSE by_priority

pending_tasks == SelectSeq(tasks_to_display, LAMBDA t : t.status = "Pending")

completed_tasks == SelectSeq(tasks_to_display, LAMBDA t : t.status = "Completed")

\* The ids of the rows of a list.
IdsOf(rows) == {rows[i].id : i \in DOMAIN rows}

\* for task in pending_tasks: the ids of the rows of the "Pending Tasks" list.
PendingRows == IdsOf(pending_tasks)

\* for task in completed_tasks: the ids of the rows of the "Completed Tasks" expander.
CompletedRows == IdsOf(completed_tasks)

\* if st.session_state.task_to_edit == task_id: the pending row shows the edit
\* form, and otherwise the checkbox and the Edit and Delete buttons.
ShowsEditForm(task_id) == task_to_edit = task_id

\* ------------------------------------------------------------ the dashboard

\* The metric counts the pending tasks displayed, not those stored.
pending_tasks_count_displayed == Len(pending_tasks)

pending_tasks_count == Len(SelectSeq(all_tasks, LAMBDA t : t.status = "Pending"))

completed_tasks_count == Len(all_tasks) - pending_tasks_count

total_tasks == Len(all_tasks)

\* n / d to the nearest integer, a tie to the even one: what "{:.2f}" shows,
\* in hundredths, of a value that is n / d hundredths.
round_half_even(n, d) ==
    LET q == n \div d
        r == n % d
    IN  IF 2 * r < d THEN q
        ELSE IF 2 * r > d THEN q + 1
        ELSE IF q % 2 = 0 THEN q ELSE q + 1

\* The "Completion Rate" metric, in hundredths of a percent.
completion_rate ==
    IF total_tasks > 0
    THEN round_half_even(completed_tasks_count * 100 * 100, total_tasks)
    ELSE 0

\* ------------------------------------------------------------------ actions

Init ==
    /\ tasks = <<>>
    /\ all_tasks = <<>>
    /\ seq = 0
    /\ task_to_edit = None
    /\ search_query = <<>>
    /\ filter_priority = "All"
    /\ filter_status = "All"

Filters == <<search_query, filter_priority, filter_status>>

\* The script runs again and reads the table.
Rerun == all_tasks' \in view_all_tasks(tasks')

\* "Add Task" is pressed in the New Task Form.
SubmitAdd(new_title, new_desc, new_priority, new_due_date) ==
    /\ seq < MaxId
    /\ \E today \in Todays : DateLeq(today, new_due_date)
    /\ IF new_title # <<>>
       THEN /\ tasks' = add_task(new_title, new_desc, new_priority, new_due_date)
            /\ seq' = lastrowid
       ELSE UNCHANGED <<tasks, seq>>
    /\ UNCHANGED <<task_to_edit, Filters>>
    /\ Rerun

SetSearch(q) ==
    /\ search_query' = q
    /\ UNCHANGED <<tasks, seq, task_to_edit, filter_priority, filter_status>>
    /\ Rerun

SetFilterPriority(p) ==
    /\ filter_priority' = p
    /\ UNCHANGED <<tasks, seq, task_to_edit, search_query, filter_status>>
    /\ Rerun

SetFilterStatus(s) ==
    /\ filter_status' = s
    /\ UNCHANGED <<tasks, seq, task_to_edit, search_query, filter_priority>>
    /\ Rerun

\* The checkbox is drawn beside the edit form too.
CheckCompleteWhileEditing(task_id) ==
    /\ UNCHANGED <<seq, task_to_edit, Filters>>
    /\ tasks' = update_task_status(task_id, "Completed")
    /\ Rerun

\* The handlers of a row of the "Pending Tasks" list, task_id in PendingRows.

\* The checkbox of the row is ticked.
CheckComplete(task_id) ==
    /\ ~ShowsEditForm(task_id)
    /\ UNCHANGED <<seq, task_to_edit, Filters>>
    /\ tasks' = update_task_status(task_id, "Completed")
    /\ Rerun

ClickEdit(task_id) ==
    /\ ~ShowsEditForm(task_id)
    /\ task_to_edit' = task_id
    /\ UNCHANGED <<tasks, seq, Filters>>
    /\ Rerun

ClickDelete(task_id) ==
    /\ ~ShowsEditForm(task_id)
    /\ UNCHANGED <<seq, task_to_edit, Filters>>
    /\ tasks' = delete_task(task_id)
    /\ Rerun

\* Save Changes forgets to clear task_to_edit.
SaveChangesStaysInEditMode(task_id, edit_title, edit_desc, edit_priority, edit_due_date) ==
    /\ ShowsEditForm(task_id)
    /\ UNCHANGED <<seq, Filters, task_to_edit>>
    /\ tasks' = update_task_details(task_id, edit_title, edit_desc, edit_priority, edit_due_date)
    /\ Rerun

SaveChanges(task_id, edit_title, edit_desc, edit_priority, edit_due_date) ==
    /\ ShowsEditForm(task_id)
    /\ UNCHANGED <<seq, Filters>>
    /\ tasks' = update_task_details(task_id, edit_title, edit_desc, edit_priority, edit_due_date)
    /\ task_to_edit' = None
    /\ Rerun

Cancel(task_id) ==
    /\ ShowsEditForm(task_id)
    /\ task_to_edit' = None
    /\ UNCHANGED <<tasks, seq, Filters>>
    /\ Rerun

\* The handlers of a row of the "Completed Tasks" expander, task_id in CompletedRows.

\* The checkbox of the row is cleared.
Uncomplete(task_id) ==
    /\ UNCHANGED <<seq, task_to_edit, Filters>>
    /\ tasks' = update_task_status(task_id, "Pending")
    /\ Rerun

DeleteCompleted(task_id) ==
    /\ UNCHANGED <<seq, task_to_edit, Filters>>
    /\ tasks' = delete_task(task_id)
    /\ Rerun

Next ==
    \/ \E f \in NewTaskForms : SubmitAdd(f.title, f.description, f.priority, f.due_date)
    \/ \E q \in Searches : SetSearch(q)
    \/ \E p \in PriorityFilters : SetFilterPriority(p)
    \/ \E s \in StatusFilters : SetFilterStatus(s)
    \/ \E id \in PendingRows : CheckComplete(id)
    \/ \E id \in PendingRows : ClickEdit(id)
    \/ \E id \in PendingRows : ClickDelete(id)
    \/ \E id \in PendingRows, f \in EditForms :
            SaveChanges(id, f.title, f.description, f.priority, f.due_date)
    \/ \E id \in PendingRows : Cancel(id)
    \/ \E id \in CompletedRows : Uncomplete(id)
    \/ \E id \in CompletedRows : DeleteCompleted(id)

Spec == Init /\ [][Next]_vars

\* ------------------------------------------------- the store, called directly

\* The store functions called with any row id, present or not (another session
\* on the same tasks.db may have deleted the row); the list is read afterwards.
StoreAdd(title, description, priority, due_date) ==
    /\ seq < MaxId
    /\ tasks' = add_task(title, description, priority, due_date)
    /\ seq' = lastrowid
    /\ UNCHANGED <<task_to_edit, Filters>>
    /\ Rerun

StoreUpdateStatus(task_id, status) ==
    /\ tasks' = update_task_status(task_id, status)
    /\ UNCHANGED <<seq, task_to_edit, Filters>>
    /\ Rerun

StoreUpdateDetails(task_id, title, description, priority, due_date) ==
    /\ tasks' = update_task_details(task_id, title, description, priority, due_date)
    /\ UNCHANGED <<seq, task_to_edit, Filters>>
    /\ Rerun

StoreDelete(task_id) ==
    /\ tasks' = delete_task(task_id)
    /\ UNCHANGED <<seq, task_to_edit, Filters>>
    /\ Rerun

StoreNext ==
    \/ \E f \in {g \in NewTaskForms : g.title # <<>>} :
            StoreAdd(f.title, f.description, f.priority, f.due_date)
    \/ \E id \in Ids, s \in Statuses : StoreUpdateStatus(id, s)
    \/ \E id \in Ids, f \in EditForms :
            StoreUpdateDetails(id, f.title, f.description, f.priority, f.due_date)
    \/ \E id \in Ids : StoreDelete(id)

StoreSpec == Init /\ [][StoreNext]_vars

\* ------------------------------------------------------------------- claims

\* Row `after` is row `before` with the four editable fields set as the form says.
Edited(before, after, title, description, priority, due_date) ==
    /\ after.title = title
    /\ after.description = description
    /\ after.priority = priority
    /\ strptime(after.due_date) = due_date
    /\ after.id = before.id
    /\ after.status = before.status
    /\ after.created_at = before.created_at

\* C1: an add with a non-empty title makes the next list hold exactly one new
\* task, with an id no stored task has, status Pending and the supplied title,
\* description, priority and due date; every task listed before is listed still,
\* unchanged.
AddYieldsOneNewPendingTask ==
    [][\A f \in NewTaskForms :
          (SubmitAdd(f.title, f.description, f.priority, f.due_date) /\ f.title # <<>>) =>
             /\ Len(all_tasks') = Len(all_tasks) + 1
             /\ \E new \in DOMAIN all_tasks' :
                  /\ all_tasks'[new].id \notin DOMAIN tasks
                  /\ all_tasks'[new].id \notin IdsOf(all_tasks)
                  /\ all_tasks'[new].status = "Pending"
                  /\ all_tasks'[new].title = f.title
                  /\ all_tasks'[new].description = f.description
                  /\ all_tasks'[new].priority = f.priority
                  /\ strptime(all_tasks'[new].due_date) = f.due_date
                  /\ \A old \in DOMAIN all_tasks :
                        \E j \in DOMAIN all_tasks' \ {new} : all_tasks'[j] = all_tasks[old]
      ]_vars

\* C1 witness: a second task was added to a store that held one.
SecondTaskAdded ==
    /\ seq = 2
    /\ Len(all_tasks) = 2
    /\ \A i \in DOMAIN all_tasks : all_tasks[i].status = "Pending"

\* C2: no stored task has an empty title.
EveryTitleNonEmpty == \A id \in DOMAIN tasks : tasks[id].title # <<>>

\* C3: the list holds exactly the stored tasks, each once, and every adjacent
\* pair is in due date order.
ListAllIsSortedByDueDate ==
    /\ Len(all_tasks) = Cardinality(DOMAIN tasks)
    /\ \A i \in DOMAIN all_tasks :
          /\ all_tasks[i].id \in DOMAIN tasks
          /\ all_tasks[i] = tasks[all_tasks[i].id]
    /\ \A id \in DOMAIN tasks : Cardinality({i \in DOMAIN all_tasks : all_tasks[i].id = id}) = 1
    /\ \A i \in 1..(Len(all_tasks) - 1) :
          DateLeq(strptime(all_tasks[i].due_date), strptime(all_tasks[i + 1].due_date))

\* C3 witness: the task inserted later is due earlier and is listed first.
LaterInsertListedFirst ==
    /\ Len(all_tasks) >= 2
    /\ all_tasks[1].id > all_tasks[2].id
    /\ all_tasks[1].due_date # all_tasks[2].due_date

\* C4: update_status sets the status of the row with that id and nothing else:
\* the row's other fields, every other row and the set of ids stay; with no
\* such row the table stays as it is.
UpdateStatusChangesOnlyStatus ==
    [][\A id \in Ids, s \in Statuses :
          StoreUpdateStatus(id, s) =>
             /\ DOMAIN tasks' = DOMAIN tasks
             /\ \A other \in DOMAIN tasks \ {id} : tasks'[other] = tasks[other]
             /\ id \in DOMAIN tasks =>
                  /\ tasks'[id].status = s
                  /\ tasks'[id] = [tasks[id] EXCEPT !.status = s]
                  /\ tasks'[id].id = id
                  /\ tasks'[id].title = tasks[id].title
                  /\ tasks'[id].description = tasks[id].description
                  /\ tasks'[id].priority = tasks[id].priority
                  /\ tasks'[id].due_date = tasks[id].due_date
                  /\ tasks'[id].created_at = tasks[id].created_at
             /\ id \notin DOMAIN tasks => tasks' = tasks
      ]_vars

\* C4 witness: a task was set Completed, and a row id that
\* was handed out is gone.
CompletedTaskAndAbsentId ==
    /\ \E id \in DOMAIN tasks : tasks[id].status = "Completed"
    /\ \E id \in 1..seq : id \notin DOMAIN tasks

\* C5: a delete, of a pending or of a completed task, takes exactly that task
\* off the list; every other task is listed still, unchanged.
DeleteRemovesExactlyThatTask ==
    [][\A id \in Ids :
          ((ClickDelete(id) /\ id \in PendingRows) \/ (DeleteCompleted(id) /\ id \in CompletedRows)) =>
             /\ id \in IdsOf(all_tasks)
             /\ id \notin IdsOf(all_tasks')
             /\ Len(all_tasks') = Len(all_tasks) - 1
             /\ \A i \in DOMAIN all_tasks :
                   all_tasks[i].id # id => \E j \in DOMAIN all_tasks' : all_tasks'[j] = all_tasks[i]
      ]_vars

\* C5 witness: a task was deleted and another one is still listed.
DeletedOneKeptOne ==
    /\ seq = 2
    /\ Len(all_tasks) = 1
    /\ all_tasks[1].id = 1

\* C6: update_details sets title, description, priority and due date of the
\* row with that id, leaves its id, status and created_at, leaves every other
\* row, and adds or removes none.
UpdateDetailsSetsFourFields ==
    [][\A id \in Ids, f \in EditForms :
          StoreUpdateDetails(id, f.title, f.description, f.priority, f.due_date) =>
             /\ DOMAIN tasks' = DOMAIN tasks
             /\ \A other \in DOMAIN tasks \ {id} : tasks'[other] = tasks[other]
             /\ id \in DOMAIN tasks =>
                  Edited(tasks[id], tasks'[id], f.title, f.description, f.priority, f.due_date)
      ]_vars

\* C6 witness: a Completed task carries the details of an edit form, beside
\* another task.
CompletedTaskWasEdited ==
    /\ \E id \in DOMAIN tasks :
          /\ tasks[id].status = "Completed"
          /\ tasks[id].priority = "Medium"
    /\ Cardinality(DOMAIN tasks) >= 2

\* C7: Cancel leaves the table and ends edit mode; Save updates the details of
\* the task in edit mode, of no other, and ends edit mode; Edit puts its task
\* in edit mode in place of any other; one id at most is in edit mode.
LeavingEditMode ==
    [][/\ \A id \in Ids :
             (Cancel(id) /\ id \in PendingRows) => /\ task_to_edit = id
                           /\ tasks' = tasks
                           /\ task_to_edit' = None
       /\ \A id \in Ids, f \in EditForms :
             (SaveChanges(id, f.title, f.description, f.priority, f.due_date) /\ id \in PendingRows) =>
                /\ task_to_edit = id
                /\ task_to_edit' = None
                /\ DOMAIN tasks' = DOMAIN tasks
                /\ Edited(tasks[id], tasks'[id], f.title, f.description, f.priority, f.due_date)
                /\ \A other \in DOMAIN tasks \ {id} : tasks'[other] = tasks[other]
       /\ \A id \in Ids :
             (ClickEdit(id) /\ id \in PendingRows) => /\ task_to_edit' = id
                              /\ tasks' = tasks
       /\ task_to_edit' \in {None} \cup DOMAIN tasks'
      ]_vars

\* C7 witness: a task carries the details of an edit form, edit mode is over
\* and another task is listed.
SavedAndLeftEditMode ==
    /\ task_to_edit = None
    /\ \E id \in DOMAIN tasks : tasks[id].priority = "Medium"
    /\ Len(all_tasks) = 2

\* C8: the dashboard counts the whole table whatever the filters: total,
\* pending and completed are the numbers of stored, Pending and Completed
\* tasks, pending + completed = total, and the rate shown is completed * 100 /
\* total to two decimals, 0 for an empty table, 50.00 for one of two.
DashboardCountsTheWholeTable ==
    /\ total_tasks = Cardinality(DOMAIN tasks)
    /\ pending_tasks_count = Cardinality({id \in DOMAIN tasks : tasks[id].status = "Pending"})
    /\ completed_tasks_count = Cardinality({id \in DOMAIN tasks : tasks[id].status = "Completed"})
    /\ pending_tasks_count + completed_tasks_count = total_tasks
    /\ total_tasks = 0 => completion_rate = 0
    /\ total_tasks > 0 =>
          /\ 2 * (completion_rate * total_tasks - completed_tasks_count * 10000) <= total_tasks
          /\ 2 * (completed_tasks_count * 10000 - completion_rate * total_tasks) <= total_tasks
    /\ (total_tasks = 2 /\ completed_tasks_count = 1) => completion_rate = 5000

\* C8 witness: one of two tasks is Completed while the filters hide a task.
HalfDoneUnderFilters ==
    /\ total_tasks = 2
    /\ completed_tasks_count = 1
    /\ filter_status = "Pending"
    /\ search_query # <<>>
    /\ Len(tasks_to_display) < 2

\* Two characters that differ in case at most.
SameLetter(a, b) ==
    \/ a = b
    \/ <<a, b>> \in {<<"A", "a">>, <<"B", "b">>, <<"C", "c">>}
    \/ <<b, a>> \in {<<"A", "a">>, <<"B", "b">>, <<"C", "c">>}

\* needle occurs in hay, case apart.
OccursIn(needle, hay) ==
    \E off \in 0..(Len(hay) - Len(needle)) :
        \A k \in 1..Len(needle) : SameLetter(needle[k], hay[off + k])

\* A task passes all three filters.
PassesFilters(t) ==
    /\ search_query = <<>> \/ OccursIn(search_query, t.title) \/ OccursIn(search_query, t.description)
    /\ filter_priority = "All" \/ t.priority = filter_priority
    /\ filter_status = "All" \/ t.status = filter_status

\* C9: the tasks displayed are exactly the listed tasks that pass all the
\* filters, in the order of the list.
DisplayedAreExactlyTheMatches ==
    LET kept == {i \in DOMAIN all_tasks : PassesFilters(all_tasks[i])}
        nth(k) == CHOOSE i \in kept : Cardinality({j \in kept : j <= i}) = k
    IN  /\ Len(tasks_to_display) = Cardinality(kept)
        /\ \A k \in 1..Cardinality(kept) : tasks_to_display[k] = all_tasks[nth(k)]
        /\ (search_query = <<>> /\ filter_priority = "All" /\ filter_status = "All")
              => tasks_to_display = all_tasks

\* C9 witness: a search and a priority filter together keep one task, found by
\* its description, and drop another.
SearchAndPriorityKeepOne ==
    /\ search_query # <<>>
    /\ filter_priority # "All"
    /\ Len(all_tasks) = 2
    /\ Len(tasks_to_display) = 1
    /\ ~OccursIn(search_query, tasks_to_display[1].title)

\* C10: the task in edit mode, if any, is stored and Pending.
EditedTaskIsStoredAndPending ==
    task_to_edit # None =>
        /\ task_to_edit \in DOMAIN tasks
        /\ tasks[task_to_edit].status = "Pending"

\* C10 witness: the task in edit mode is hidden by the filters while another
\* task is Completed.
EditedTaskHiddenByFilter ==
    /\ task_to_edit # None
    /\ task_to_edit \notin IdsOf(tasks_to_display)
    /\ \E id \in DOMAIN tasks : tasks[id].status = "Completed"

====
